---------------------------- MODULE Spec2Model ----------------------------
(***************************************************************************)
(* Chase betting engine of src/chase_watch.py: the persisted chase state,  *)
(* the per-race job body place_bet_job run by the scheduler's worker pool, *)
(* the daily reset, discovery at the daily trigger and at process start,   *)
(* and the stake calculator.                                               *)
(*                                                                         *)
(* Money is an integer number of 1/10000 of a currency unit (1.00 = 10000, *)
(* one penny = PENNY = 100).  Odds are an integer number of hundredths     *)
(* (3.0 = 300).  Python's None is the value None.                          *)
(***************************************************************************)
EXTENDS Integers, Sequences, FiniteSets, TLC

(* ------------------------------ bounds -------------------------------- *)
NWorkers == 2
MaxFired == 3
MaxRetries == 3
MaxPolls == 2
MaxTime == 7
MaxStarts == 2
MaxJobs == 7

(* -------------------------- program constants ------------------------- *)
None == -1
PENNY == 100
MIN_STAKE == 100
FIRST_BET_PERCENTAGE == 4
ACCOUNT_CAP == 50000000
MULTIPLIER_HIGH == 150
MULTIPLIER_MED == 165
PROFIT_BUFFER == 120
DEFAULT_RETRIES == 3
DEFAULT_DELAY == 2
BET_BUFFER_DEFAULT == 1
LOOKBACK == 2
TRIGGER_SLOT == 1

Workers == 1..NWorkers
SeedBalances == {200, 5000}
JobOdds == {150, 300}

VARIABLES
  STATE_FILE,     \* chase_state.json: <<>> when absent, <<dict>> otherwise
  BALANCE_FILE,   \* bank_balance.json: <<balance>>
  up,             \* the process is running
  clock,          \* local time of day: "pre" (< 05:00), "open", "late" (> cutoff)
  armed,          \* one-shot jobs are armed in the scheduler and not yet fired
  pc,             \* per worker thread: position in place_bet_job
  state,          \* per worker: the local dict `state`
  odds, stake,    \* per worker: locals set once the favourite is resolved
  last,           \* the job that ended last since the last reset or stop
  resetRun,       \* daily resets run in a row with no other write between
  fired,          \* job bodies started so far
  sk_in, sk_out,  \* pure-function harness: the inputs of a call and its result
  api,            \* a caller of safe_api_call and the call it is making
  db,             \* chase.sqlite3: the schedules and bets tables
  audit,          \* number of rows appended to chase_results.csv
  sch,            \* the scheduler process seen over several days: job store, time
  sv,             \* a save_state in progress and the resulting file
  ledger,         \* history: profits settled since the last reset, stakes of
                  \* the losses settled since the last win or reset
  sd,             \* a process whose seed-balance and state files may be absent
  ch              \* one chase followed job after job on a single thread

jobvars == <<pc, state, odds, stake>>
skvars == <<sk_in, sk_out, api, db, sch, sv, sd, ch>>
vars == <<STATE_FILE, BALANCE_FILE, up, clock, armed, jobvars,
          last, resetRun, fired, audit, ledger, skvars>>

(* ------------------------------ helpers ------------------------------- *)
Min(a, b) == IF a <= b THEN a ELSE b
Max(a, b) == IF a >= b THEN a ELSE b
CeilDiv(n, d) == (n + d - 1) \div d

EmptyDict == [k \in {} |-> None]
Get(d, k, dflt) == IF k \in DOMAIN d THEN d[k] ELSE dflt
Put(d, k, v) == [x \in (DOMAIN d) \cup {k} |-> IF x = k THEN v ELSE d[x]]
Update(d, e) == [x \in (DOMAIN d) \cup (DOMAIN e) |->
                   IF x \in DOMAIN e THEN e[x] ELSE d[x]]

ceil_penny_down(n, d) == (n \div (d * PENNY)) * PENNY

(* ceil_penny of the amount n/d (d > 0): ROUND_UP rounds away from zero *)
ceil_penny(n, d) ==
  IF n >= 0 THEN CeilDiv(n, d * PENNY) * PENNY
            ELSE -(CeilDiv(-n, d * PENNY) * PENNY)

calculate_next_stake_strict(prev_stake, l, next_odds, losses, balance) ==
  LET o == next_odds
      p == IF prev_stake = None \/ prev_stake = 0 THEN MIN_STAKE ELSE prev_stake
  IN  IF l <= 1
        THEN Max(ceil_penny(Min(balance, ACCOUNT_CAP) * FIRST_BET_PERCENTAGE, 100),
                 MIN_STAKE)
      ELSE IF l = 6
        THEN Min(balance, ACCOUNT_CAP)
      ELSE IF l \in {2, 3, 4, 5}
        THEN Max(IF o > 300 THEN ceil_penny(p * MULTIPLIER_HIGH, 100)
                 ELSE IF o > 225 THEN ceil_penny(p * MULTIPLIER_MED, 100)
                 ELSE IF o - 100 <= 0 THEN ceil_penny(MIN_STAKE, 1)
                 ELSE ceil_penny(losses * PROFIT_BUFFER, o - 100),
                 MIN_STAKE)
      ELSE Max(ceil_penny(p, 1), MIN_STAKE)

calculate_next_stake_uncapped(prev_stake, l, next_odds, losses, balance) ==
  LET o == next_odds
      p == IF prev_stake = None \/ prev_stake = 0 THEN MIN_STAKE ELSE prev_stake
  IN  IF l <= 1
        THEN Max(ceil_penny(balance * FIRST_BET_PERCENTAGE, 100), MIN_STAKE)
      ELSE IF l = 6
        THEN Min(balance, ACCOUNT_CAP)
      ELSE IF l \in {2, 3, 4, 5}
        THEN Max(IF o >= 300 THEN ceil_penny(p * MULTIPLIER_HIGH, 100)
                 ELSE IF o >= 225 THEN ceil_penny(p * MULTIPLIER_MED, 100)
                 ELSE IF o - 100 <= 0 THEN ceil_penny(MIN_STAKE, 1)
                 ELSE ceil_penny(losses * PROFIT_BUFFER, o - 100),
                 MIN_STAKE)
      ELSE Max(ceil_penny(p, 1), MIN_STAKE)

calculate_next_stake_allin_clamped(prev_stake, l, next_odds, losses, balance) ==
  LET o == next_odds
      p == IF prev_stake = None \/ prev_stake = 0 THEN MIN_STAKE ELSE prev_stake
  IN  IF l <= 1
        THEN Max(ceil_penny(Min(balance, ACCOUNT_CAP) * FIRST_BET_PERCENTAGE, 100),
                 MIN_STAKE)
      ELSE IF l = 6
        THEN Max(Min(balance, ACCOUNT_CAP), MIN_STAKE)
      ELSE IF l \in {2, 3, 4, 5}
        THEN Max(IF o >= 300 THEN ceil_penny(p * MULTIPLIER_HIGH, 100)
                 ELSE IF o >= 225 THEN ceil_penny(p * MULTIPLIER_MED, 100)
                 ELSE IF o - 100 <= 0 THEN ceil_penny(MIN_STAKE, 1)
                 ELSE ceil_penny(losses * PROFIT_BUFFER, o - 100),
                 MIN_STAKE)
      ELSE Max(ceil_penny(p, 1), MIN_STAKE)

calculate_next_stake(prev_stake, l, next_odds, losses, balance) ==
  LET o == next_odds
      p == IF prev_stake = None \/ prev_stake = 0 THEN MIN_STAKE ELSE prev_stake
  IN  IF l <= 1
        THEN Max(ceil_penny(Min(balance, ACCOUNT_CAP) * FIRST_BET_PERCENTAGE, 100),
                 MIN_STAKE)
      ELSE IF l = 6
        THEN Min(balance, ACCOUNT_CAP)
      ELSE IF l \in {2, 3, 4, 5}
        THEN Max(IF o >= 300 THEN ceil_penny(p * MULTIPLIER_HIGH, 100)
                 ELSE IF o >= 225 THEN ceil_penny(p * MULTIPLIER_MED, 100)
                 ELSE IF o - 100 <= 0 THEN ceil_penny(MIN_STAKE, 1)
                 ELSE ceil_penny(losses * PROFIT_BUFFER, o - 100),
                 MIN_STAKE)
      ELSE Max(ceil_penny(p, 1), MIN_STAKE)

load_initial_balance == BALANCE_FILE[1]

fresh_state ==
  [balance |-> load_initial_balance, leg |-> 1, accumulated_losses |-> 0,
   prev_stake |-> None, chase_active |-> FALSE]

load_state == IF STATE_FILE # <<>> THEN STATE_FILE[1] ELSE fresh_state

daily_reset_job_keeps_balance(f) ==
  IF f # <<>> THEN Put(fresh_state, "balance", f[1].balance) ELSE fresh_state

(* the dict daily_reset_job saves over the file f *)
daily_reset_job(f) == fresh_state

mark_running_advances(s) ==
  Put(Put(s, "is_running_race", TRUE), "leg", s.leg + 1)

(* the dict saved before the wager is placed *)
mark_running(s) == Put(s, "is_running_race", TRUE)

profit_of_gross(win, o, st) == IF win THEN (o * st) \div 100 ELSE -st

(* place_chase_bet's profit for a settled wager *)
profit_of(win, o, st) ==
  IF win THEN (o - 100) * (st \div 100) + ((o - 100) * (st % 100)) \div 100
         ELSE -st

win_update_keeps_leg(s) ==
  Update(s, [accumulated_losses |-> 0, prev_stake |-> None,
             chase_active |-> FALSE])

loss_update_last_only(s, l, losses, st) ==
  Put(Put(Put(s, "accumulated_losses", st), "prev_stake", st), "leg", l + 1)

(* the dict a job saves after settlement *)
win_update(s) ==
  Update(s, [accumulated_losses |-> 0, prev_stake |-> None,
             chase_active |-> FALSE, leg |-> 1])

loss_update(s, l, losses, st) ==
  Put(Put(Put(s, "accumulated_losses", losses + st), "prev_stake", st),
      "leg", l + 1)

settled_state(s, win, l, losses, st, newbal) ==
  Put(Put(IF win THEN win_update(s) ELSE loss_update(s, l, losses, st),
          "balance", newbal),
      "is_running_race", FALSE)

IsRunning(f) == f # <<>> /\ Get(f[1], "is_running_race", FALSE)
Outstanding == {w \in Workers : pc[w] = "placed"}
InFlight == {w \in Workers : pc[w] \in {"resolving", "placed"}}

(* the locals place_bet_job reads from the dict it loaded *)
leg(w) == Get(state[w], "leg", 1)
bal(w) == Get(state[w], "balance", 0)
ps(w) == Get(state[w], "prev_stake", None)
acc_losses(w) == Get(state[w], "accumulated_losses", 0)

skip_guard_no_flag(s) ==
  IF clock = "late" /\ Get(s, "leg", 1) = 1 THEN "skip_cutoff"
  ELSE IF Get(s, "balance", 0) < MIN_STAKE THEN "skip_balance"
  ELSE "go"

skip_guard_any_leg(s) ==
  IF clock = "late" THEN "skip_cutoff"
  ELSE IF Get(s, "balance", 0) < MIN_STAKE THEN "skip_balance"
  ELSE IF Get(s, "is_running_race", FALSE) THEN "skip_flag"
  ELSE "go"

(* the guard, if any, that makes a job skip right after loading dict s *)
skip_guard(s) ==
  IF clock = "late" /\ Get(s, "leg", 1) = 1 THEN "skip_cutoff"
  ELSE IF Get(s, "balance", 0) < MIN_STAKE THEN "skip_balance"
  ELSE IF Get(s, "is_running_race", FALSE) THEN "skip_flag"
  ELSE "go"

(* record of an ended job: its thread, return path, loaded leg, result *)
JobRec(w, how, s, win) ==
  [w |-> w, how |-> how, leg |-> Get(s, "leg", 1), win |-> win]
NoJob == JobRec(0, "none", EmptyDict, FALSE)

(* ------------------------------- Init --------------------------------- *)
AllIdle == [w \in Workers |-> "idle"]
NoDicts == [w \in Workers |-> EmptyDict]
NoLocals == [w \in Workers |-> None]

(* no call of safe_api_call is being followed *)
ApiIdle ==
  [caller |-> "none", pc |-> "idle", retries |-> 0, delay0 |-> 0,
   attempt |-> 0, delay |-> 0, calls |-> 0, fails |-> 0, slept |-> <<>>,
   result |-> [kind |-> "unset"], sel |-> 0, polls |-> 0, out |-> "PENDING"]

(* no schedule row and no bet row *)
DbEmpty == [schedules |-> EmptyDict, bets |-> <<>>]

(* the history of settled wagers: not kept, or kept and empty *)
NoLedger == [on |-> FALSE, pnl |-> 0, streak |-> <<>>]
OpenLedger == [on |-> TRUE, pnl |-> 0, streak |-> <<>>]

(* the history after a daily reset, and after a wager settles *)
reset_ledger(l) == IF l.on THEN OpenLedger ELSE l
settle_ledger(l, win, profit, st) ==
  IF l.on
    THEN [l EXCEPT !.pnl = @ + profit,
                   !.streak = IF win THEN <<>> ELSE Append(@, st)]
    ELSE l

(* no process with absent files and no single chase is being followed *)
SdIdle == [pc |-> "unused"]
ChIdle == [pc |-> "unused"]

(* the several-day view of the scheduler is not followed *)
SchIdle ==
  [pc |-> "idle", time |-> 0, cron |-> 0, jobs |-> {}, runs |-> EmptyDict,
   disc |-> 0, discAt |-> None, seen |-> {}, starts |-> 0]

(* no save_state is being followed *)
NotLoaded == [err |-> "none", value |-> EmptyDict]
SvIdle ==
  [pc |-> "unused", old |-> EmptyDict, new |-> EmptyDict, file |-> <<>>,
   todo |-> <<>>, loaded |-> NotLoaded]

IdleJobs ==
  /\ pc = AllIdle
  /\ state = NoDicts
  /\ odds = NoLocals /\ stake = NoLocals

Init ==
  /\ STATE_FILE = <<>>
  /\ BALANCE_FILE \in {<<b>> : b \in SeedBalances}
  /\ up = FALSE
  /\ clock = "pre"
  /\ armed = FALSE
  /\ IdleJobs
  /\ last = NoJob /\ resetRun = 0
  /\ fired = 0
  /\ sk_in = EmptyDict /\ sk_out = None
  /\ api = ApiIdle
  /\ db = DbEmpty /\ audit = 0 /\ ledger = NoLedger /\ sd = SdIdle /\ ch = ChIdle /\ sch = SchIdle /\ sv = SvIdle

(* ------------------------ scheduler and process ----------------------- *)
(* schedule_races: discovery, the daily reset, one armed job per market;  *)
(* discovery may find no market                                          *)
schedule_races ==
  /\ STATE_FILE' = <<daily_reset_job(STATE_FILE)>>
  /\ armed' \in BOOLEAN
  /\ last' = NoJob
  /\ resetRun' = Min(resetRun + 1, 2)
  /\ ledger' = reset_ledger(ledger)

(* __main__: start the scheduler; past 05:00 discovery runs at once *)
Main ==
  /\ ~up
  /\ up' = TRUE
  /\ IF clock # "pre"
       THEN schedule_races
       ELSE UNCHANGED <<STATE_FILE, armed, last, resetRun, ledger>>
  /\ UNCHANGED <<BALANCE_FILE, clock, jobvars, fired, audit, skvars>>

(* the process stops: worker threads and the in-memory job store are gone *)
Stop ==
  /\ up
  /\ up' = FALSE /\ armed' = FALSE
  /\ pc' = AllIdle /\ state' = NoDicts
  /\ odds' = NoLocals /\ stake' = NoLocals
  /\ last' = NoJob
  /\ UNCHANGED <<STATE_FILE, BALANCE_FILE, clock, resetRun, fired, audit, ledger, skvars>>

(* the cron trigger at 05:00 runs schedule_races *)
DailyTrigger ==
  /\ up /\ clock = "pre"
  /\ clock' = "open"
  /\ schedule_races
  /\ UNCHANGED <<BALANCE_FILE, up, jobvars, fired, audit, skvars>>

(* time passes with no handler of the process running; the run times of  *)
(* the armed jobs all precede midnight                                    *)
Tick ==
  /\ \/ clock = "pre" /\ ~up /\ clock' = "open" /\ armed' = armed
     \/ clock = "open" /\ clock' = "late" /\ armed' = armed
     \/ clock = "late" /\ clock' = "pre" /\ armed' = FALSE
  /\ UNCHANGED <<STATE_FILE, BALANCE_FILE, up, jobvars, last, resetRun,
                 fired, audit, ledger, skvars>>

(* --------------------------- place_bet_job ---------------------------- *)
(* the job fires on a free pool thread, loads the state, runs the guards *)
Fire(w) ==
  /\ up /\ armed /\ clock # "pre" /\ fired < MaxFired
  /\ pc[w] = "idle"
  /\ \A v \in Workers : v < w => pc[v] # "idle"
  /\ fired' = fired + 1
  /\ armed' \in BOOLEAN
  /\ LET s == load_state
         how == skip_guard(s)
     IN IF how = "go"
          THEN /\ state' = [state EXCEPT ![w] = s]
               /\ pc' = [pc EXCEPT ![w] = "resolving"]
               /\ last' = last
          ELSE /\ last' = JobRec(w, how, s, FALSE)
               /\ UNCHANGED <<state, pc>>
  /\ UNCHANGED <<STATE_FILE, BALANCE_FILE, up, clock, odds, stake,
                 resetRun, audit, ledger, skvars>>

(* determine_fav_and_odds returns; stake computed; flag persisted *)
Resolve(w) ==
  /\ up /\ pc[w] = "resolving"
  /\ \E o \in JobOdds \cup {0} :
       IF o = 0
         THEN /\ pc' = [pc EXCEPT ![w] = "idle"]
              /\ state' = [state EXCEPT ![w] = EmptyDict]
              /\ last' = JobRec(w, "skip_nodata", state[w], FALSE)
              /\ UNCHANGED <<STATE_FILE, odds, stake, resetRun>>
         ELSE LET st == calculate_next_stake(ps(w), leg(w), o, acc_losses(w), bal(w))
                  s == mark_running(state[w])
              IN /\ odds' = [odds EXCEPT ![w] = o]
                 /\ stake' = [stake EXCEPT ![w] = st]
                 /\ state' = [state EXCEPT ![w] = s]
                 /\ STATE_FILE' = <<s>>
                 /\ resetRun' = 0
                 /\ pc' = [pc EXCEPT ![w] = "placed"]
                 /\ last' = last
  /\ UNCHANGED <<BALANCE_FILE, up, clock, armed, fired, audit, ledger, skvars>>

(* await_result returns: the wager is settled and the outcome persisted *)
Settle(w) ==
  /\ up /\ pc[w] = "placed"
  /\ \E win \in BOOLEAN :
       LET profit == profit_of(win, odds[w], stake[w])
           newbal == bal(w) + profit
           s == settled_state(state[w], win, leg(w), acc_losses(w), stake[w], newbal)
       IN /\ STATE_FILE' = <<s>>
          /\ last' = JobRec(w, "settled", state[w], win)
          /\ ledger' = settle_ledger(ledger, win, profit, stake[w])
  /\ resetRun' = 0
  /\ pc' = [pc EXCEPT ![w] = "idle"]
  /\ state' = [state EXCEPT ![w] = EmptyDict]
  /\ odds' = [odds EXCEPT ![w] = None]
  /\ stake' = [stake EXCEPT ![w] = None]
  /\ audit' = audit + 1
  /\ UNCHANGED <<BALANCE_FILE, up, clock, armed, fired, skvars>>

(* place_chase_bet raises: the job logs the error and returns *)
PlaceFail(w) ==
  /\ up /\ pc[w] = "placed"
  /\ pc' = [pc EXCEPT ![w] = "idle"]
  /\ state' = [state EXCEPT ![w] = EmptyDict]
  /\ odds' = [odds EXCEPT ![w] = None]
  /\ stake' = [stake EXCEPT ![w] = None]
  /\ last' = JobRec(w, "error_place", state[w], FALSE)
  /\ UNCHANGED <<STATE_FILE, BALANCE_FILE, up, clock, armed, resetRun,
                 fired, audit, ledger, skvars>>

Next ==
  \/ Main
  \/ Stop
  \/ DailyTrigger
  \/ Tick
  \/ \E w \in Workers : Fire(w)
  \/ \E w \in Workers : Resolve(w)
  \/ \E w \in Workers : Settle(w)
  \/ \E w \in Workers : PlaceFail(w)

Spec == Init /\ [][Next]_vars

(* the same program with the history of settled wagers kept *)
InitLedger ==
  /\ STATE_FILE = <<>>
  /\ BALANCE_FILE \in {<<b>> : b \in SeedBalances}
  /\ up = FALSE
  /\ clock = "pre"
  /\ armed = FALSE
  /\ IdleJobs
  /\ last = NoJob /\ resetRun = 0
  /\ fired = 0
  /\ sk_in = EmptyDict /\ sk_out = None
  /\ api = ApiIdle
  /\ db = DbEmpty /\ audit = 0 /\ sd = SdIdle /\ ch = ChIdle
  /\ sch = SchIdle /\ sv = SvIdle
  /\ ledger = OpenLedger

SpecLedger == InitLedger /\ [][Next]_vars

(* the provider eventually reports closure to a job that keeps polling *)
SpecClosing == Spec /\ \A w \in Workers : WF_vars(Settle(w))

(* ------------------------- stake calculator --------------------------- *)
StakeLegs == 1..7
StakeOdds == {50, 100, 101, 150, 200, 224, 225, 250, 299, 300, 320}
StakePrev == {None, 100, 150, 700, 80000, 120000}
StakeLosses == {0, 100, 1900, 200000}
StakeBalances == {0, 50, 100, 5000, 10100, 2000000, 3400000, 50000000, 60000000}

InitStake ==
  /\ STATE_FILE = <<>>
  /\ BALANCE_FILE \in {<<b>> : b \in SeedBalances}
  /\ up = FALSE /\ clock = "pre" /\ armed = FALSE
  /\ IdleJobs
  /\ last = NoJob /\ resetRun = 0
  /\ fired = 0
  /\ sk_in \in [prev_stake : StakePrev, leg : StakeLegs, next_odds : StakeOdds,
                acc_losses : StakeLosses, balance : StakeBalances]
  /\ sk_out = None
  /\ api = ApiIdle
  /\ db = DbEmpty /\ audit = 0 /\ ledger = NoLedger /\ sd = SdIdle /\ ch = ChIdle /\ sch = SchIdle /\ sv = SvIdle

StakeCall ==
  /\ sk_out = None
  /\ sk_out' = calculate_next_stake(sk_in.prev_stake, sk_in.leg, sk_in.next_odds,
                                    sk_in.acc_losses, sk_in.balance)
  /\ UNCHANGED <<STATE_FILE, BALANCE_FILE, up, clock, armed, jobvars,
                 last, resetRun, fired, sk_in, api, db, audit, ledger, sd, ch, sch, sv>>

NextStake == StakeCall

SpecStake == InitStake /\ [][NextStake]_vars

(* --------------------------- should_skip ------------------------------ *)
(* A string is a sequence of characters; None and "" (both falsy) are <<>> *)
lower_char(c) == IF c = "A" THEN "a" ELSE IF c = "B" THEN "b" ELSE c
lower(s) == [i \in DOMAIN s |-> lower_char(s[i])]

RECURSIVE lstrip(_)
lstrip(s) == IF s # <<>> /\ Head(s) = " " THEN lstrip(Tail(s)) ELSE s
RECURSIVE rstrip(_)
rstrip(s) ==
  IF s # <<>> /\ s[Len(s)] = " " THEN rstrip(SubSeq(s, 1, Len(s) - 1)) ELSE s
strip(s) == rstrip(lstrip(s))

(* Python's `t in s` on strings *)
Contains(t, s) ==
  \E i \in 1..(Len(s) - Len(t) + 1) : SubSeq(s, i, i + Len(t) - 1) = t

(* row.get(k1) or row.get(k2) or "" *)
get_or(row, k1, k2) ==
  IF k1 \in DOMAIN row /\ row[k1] # <<>> THEN row[k1]
  ELSE IF k2 \in DOMAIN row THEN row[k2]
  ELSE <<>>

RECURSIVE low_win_loop(_, _, _)
low_win_loop(rows, en, tn) ==
  IF rows = <<>> THEN FALSE
  ELSE LET row == Head(rows)
           e == strip(get_or(row, "event_name", "race_name"))
           t == lower(strip(get_or(row, "track", "venue")))
       IN  IF /\ Get(row, "skip", FALSE)
              /\ \/ e # <<>> /\ e = en
                 \/ t # <<>> /\ Contains(t, tn)
             THEN TRUE
             ELSE low_win_loop(Tail(rows), en, tn)

(* a mapping is the sequence of its items [k, v]; a value v is a bool    *)
(* [kind |-> "bool", on] or a dict [kind |-> "dict", skip (optional)]    *)
RECURSIVE grades_dict_loop(_, _)
grades_dict_loop(items, tn) ==
  IF items = <<>> THEN FALSE
  ELSE LET k == Head(items).k
           tg == Head(items).v
       IN  IF /\ k # <<>> /\ Contains(lower(strip(k)), tn)
              /\ \/ tg.kind = "dict" /\ Get(tg, "skip", FALSE)
                 \/ tg.kind = "bool" /\ tg.on
             THEN TRUE
             ELSE grades_dict_loop(Tail(items), tn)

RECURSIVE grades_list_loop(_, _)
grades_list_loop(rows, tn) ==
  IF rows = <<>> THEN FALSE
  ELSE LET row == Head(rows)
           t == lower(strip(get_or(row, "track", "venue")))
       IN  IF t # <<>> /\ Contains(t, tn) /\ Get(row, "skip", FALSE)
             THEN TRUE
             ELSE grades_list_loop(Tail(rows), tn)

should_skip_case_sensitive(event_name, track_name, low_win_list, track_grades) ==
  LET en == strip(event_name)
      tn == strip(track_name)
  IN  \/ low_win_loop(low_win_list, en, tn)
      \/ track_grades.form = "dict" /\ grades_dict_loop(track_grades.items, tn)
      \/ track_grades.form = "list" /\ grades_list_loop(track_grades.rows, tn)

should_skip(event_name, track_name, low_win_list, track_grades) ==
  LET en == strip(event_name)
      tn == lower(strip(track_name))
  IN  \/ low_win_loop(low_win_list, en, tn)
      \/ track_grades.form = "dict" /\ grades_dict_loop(track_grades.items, tn)
      \/ track_grades.form = "list" /\ grades_list_loop(track_grades.rows, tn)

SeqsUpTo2(S) == {<<>>} \cup {<<x>> : x \in S} \cup {<<x, y>> : x \in S, y \in S}

SkipEvents == {<<>>, <<"a">>, <<"A">>, <<"a", " ">>}
SkipTracks == {<<>>, <<"A", "b">>, <<"b">>, <<" ", "a">>}
DenyRows ==
  { [skip |-> TRUE, event_name |-> <<"a">>],
    [skip |-> TRUE, track |-> <<"B">>],
    [skip |-> FALSE, event_name |-> <<"a">>, track |-> <<"b">>],
    [skip |-> TRUE, event_name |-> <<>>, track |-> <<>>],
    [skip |-> TRUE, race_name |-> <<"A">>, venue |-> <<"a", " ">>],
    [event_name |-> <<"a">>] }
GradeItems ==
  { [k |-> <<"A">>, v |-> [kind |-> "bool", on |-> TRUE]],
    [k |-> <<"A">>, v |-> [kind |-> "dict", skip |-> FALSE]],
    [k |-> <<"b">>, v |-> [kind |-> "dict", skip |-> TRUE]],
    [k |-> <<"b">>, v |-> [kind |-> "dict"]],
    [k |-> <<" ">>, v |-> [kind |-> "bool", on |-> TRUE]],
    [k |-> <<>>, v |-> [kind |-> "bool", on |-> TRUE]] }
GradeRows ==
  { [track |-> <<"A">>, skip |-> TRUE],
    [track |-> <<>>, skip |-> TRUE],
    [venue |-> <<"b">>, skip |-> TRUE],
    [track |-> <<"A">>, skip |-> FALSE],
    [track |-> <<" ">>, skip |-> TRUE] }
GradeForms ==
  {[form |-> "none"]}
  \cup {[form |-> "dict", items |-> d] :
          d \in {q \in SeqsUpTo2(GradeItems) : Len(q) = 2 => q[1].k # q[2].k}}
  \cup {[form |-> "list", rows |-> r] : r \in SeqsUpTo2(GradeRows)}

InitSkip ==
  /\ STATE_FILE = <<>>
  /\ BALANCE_FILE \in {<<b>> : b \in SeedBalances}
  /\ up = FALSE /\ clock = "pre" /\ armed = FALSE
  /\ IdleJobs
  /\ last = NoJob /\ resetRun = 0
  /\ fired = 0
  /\ sk_in \in [event_name : SkipEvents, track_name : SkipTracks,
                low_win_list : SeqsUpTo2(DenyRows), track_grades : GradeForms]
  /\ sk_out = None
  /\ api = ApiIdle
  /\ db = DbEmpty /\ audit = 0 /\ ledger = NoLedger /\ sd = SdIdle /\ ch = ChIdle /\ sch = SchIdle /\ sv = SvIdle

(* the result is recorded as 1 (True) or 0 (False) *)
SkipCall ==
  /\ sk_out = None
  /\ sk_out' = IF should_skip(sk_in.event_name, sk_in.track_name,
                              sk_in.low_win_list, sk_in.track_grades)
                 THEN 1 ELSE 0
  /\ UNCHANGED <<STATE_FILE, BALANCE_FILE, up, clock, armed, jobvars,
                 last, resetRun, fired, sk_in, api, db, audit, ledger, sd, ch, sch, sv>>

NextSkip == SkipCall

SpecSkip == InitSkip /\ [][NextSkip]_vars

(* --------------------- safe_api_call and its callers ------------------ *)
Unavailable == [kind |-> "None"]
Value(v) == [kind |-> "value", v |-> v]
(* Python's `not x` for the result of safe_api_call: None or an empty list *)
Falsy(r) == r.kind = "None" \/ Len(r.v) = 0

ApiDelays == {1, 2, 3}
BetSelections == {1, 3}
RunnerLists ==
  { <<>>,
    <<[selection_id |-> 1, status |-> "WINNER"], [selection_id |-> 2, status |-> "LOSER"]>>,
    <<[selection_id |-> 1, status |-> "LOSER"], [selection_id |-> 2, status |-> "WINNER"]>>,
    <<[selection_id |-> 1, status |-> "LOSER"], [selection_id |-> 3, status |-> "REMOVED"]>> }
Books == [status : {"OPEN", "SUSPENDED", "CLOSED"}, runners : RunnerLists]

(* what the wrapped function can return, per caller *)
ApiValues(caller) ==
  IF caller = "await_result" THEN {<<>>} \cup {<<b>> : b \in Books}
  ELSE IF caller = "determine_fav_and_odds" THEN {<<>>, <<"priced">>, <<"unpriced">>}
  ELSE IF caller = "get_today_markets" THEN {<<>>, <<"market">>}
  ELSE IF caller = "create_client" THEN {<<"session">>}
  ELSE {<<"value">>}

ApiCall(c, r, d, sel) ==
  [ApiIdle EXCEPT !.caller = c, !.pc = "call", !.retries = r, !.delay0 = d,
                  !.sel = sel]

InitApi ==
  /\ STATE_FILE = <<>>
  /\ BALANCE_FILE \in {<<b>> : b \in SeedBalances}
  /\ up = FALSE /\ clock = "pre" /\ armed = FALSE
  /\ IdleJobs
  /\ last = NoJob /\ resetRun = 0
  /\ fired = 0
  /\ sk_in = EmptyDict /\ sk_out = None
  /\ api \in {ApiCall("direct", r, d, 0) : r \in 0..MaxRetries, d \in ApiDelays}
          \cup {ApiCall(c, DEFAULT_RETRIES, DEFAULT_DELAY, 0) :
                  c \in {"create_client", "get_today_markets",
                         "determine_fav_and_odds"}}
          \cup {ApiCall("await_result", DEFAULT_RETRIES, DEFAULT_DELAY, sel) :
                  sel \in BetSelections}
  /\ db = DbEmpty /\ audit = 0 /\ ledger = NoLedger /\ sd = SdIdle /\ ch = ChIdle /\ sch = SchIdle /\ sv = SvIdle

more_attempts_inclusive(attempt, retries) == attempt <= retries

(* the test that lets a failed attempt be followed by another one *)
more_attempts(attempt, retries) == attempt < retries

next_delay_constant(d) == d

(* the backoff *)
next_delay(d) == d * 2

(* safe_api_call is entered: the loop over range(1, retries + 1) starts,  *)
(* or is empty and the function returns None                              *)
SafeApiEnter ==
  /\ api.pc = "call"
  /\ api' = IF api.retries >= 1
              THEN [api EXCEPT !.pc = "attempt", !.attempt = 1,
                               !.delay = api.delay0, !.calls = 0, !.fails = 0,
                               !.slept = <<>>, !.result = [kind |-> "unset"]]
              ELSE [api EXCEPT !.pc = "returned", !.attempt = 0,
                               !.delay = api.delay0, !.calls = 0, !.fails = 0,
                               !.slept = <<>>, !.result = Unavailable]
  /\ UNCHANGED <<STATE_FILE, BALANCE_FILE, up, clock, armed, jobvars,
                 last, resetRun, fired, sk_in, sk_out, db, audit, ledger, sd, ch, sch, sv>>

(* func returns: its value is returned at once *)
AttemptReturns ==
  /\ api.pc = "attempt"
  /\ \E v \in ApiValues(api.caller) :
       api' = [api EXCEPT !.calls = @ + 1, !.result = Value(v),
                          !.pc = "returned"]
  /\ UNCHANGED <<STATE_FILE, BALANCE_FILE, up, clock, armed, jobvars,
                 last, resetRun, fired, sk_in, sk_out, db, audit, ledger, sd, ch, sch, sv>>

(* func raises: sleep and back off, or give up *)
AttemptRaises ==
  /\ api.pc = "attempt"
  /\ api' = IF more_attempts(api.attempt, api.retries)
              THEN [api EXCEPT !.calls = @ + 1, !.fails = @ + 1,
                               !.slept = Append(@, api.delay),
                               !.delay = next_delay(@),
                               !.attempt = @ + 1]
              ELSE [api EXCEPT !.calls = @ + 1, !.fails = @ + 1,
                               !.result = Unavailable, !.pc = "returned"]
  /\ UNCHANGED <<STATE_FILE, BALANCE_FILE, up, clock, armed, jobvars,
                 last, resetRun, fired, sk_in, sk_out, db, audit, ledger, sd, ch, sch, sv>>

(* create_client after safe_api_call(client.login): logs and returns the  *)
(* betting interface                                                      *)
create_client ==
  /\ api.pc = "returned" /\ api.caller = "create_client"
  /\ api' = [api EXCEPT !.pc = "proceed"]
  /\ UNCHANGED <<STATE_FILE, BALANCE_FILE, up, clock, armed, jobvars,
                 last, resetRun, fired, sk_in, sk_out, db, audit, ledger, sd, ch, sch, sv>>

(* get_today_markets after the catalogue call *)
get_today_markets ==
  /\ api.pc = "returned" /\ api.caller = "get_today_markets"
  /\ api' = [api EXCEPT !.pc = IF Falsy(api.result) THEN "skip" ELSE "proceed"]
  /\ UNCHANGED <<STATE_FILE, BALANCE_FILE, up, clock, armed, jobvars,
                 last, resetRun, fired, sk_in, sk_out, db, audit, ledger, sd, ch, sch, sv>>

(* determine_fav_and_odds after the market-book call *)
determine_fav_and_odds ==
  /\ api.pc = "returned" /\ api.caller = "determine_fav_and_odds"
  /\ api' = [api EXCEPT !.pc = IF Falsy(api.result) THEN "skip"
                                ELSE IF api.result.v[1] = "unpriced" THEN "skip"
                                ELSE "proceed"]
  /\ UNCHANGED <<STATE_FILE, BALANCE_FILE, up, clock, armed, jobvars,
                 last, resetRun, fired, sk_in, sk_out, db, audit, ledger, sd, ch, sch, sv>>

RECURSIVE first_winner(_)
first_winner(runners) ==
  IF runners = <<>> THEN <<>>
  ELSE IF Head(runners).status = "WINNER" THEN <<Head(runners)>>
  ELSE first_winner(Tail(runners))

bet_result_any_runner(book, sel) ==
  IF \E i \in DOMAIN book.runners : book.runners[i].selection_id = sel
    THEN "WON" ELSE "LOST"

(* bet["result"] for a closed book *)
bet_result(book, sel) ==
  LET winner == first_winner(book.runners)
  IN  IF winner # <<>> /\ winner[1].selection_id = sel THEN "WON" ELSE "LOST"

poll_status(r) == IF Falsy(r) THEN "UNKNOWN" ELSE r.v[1].status

(* await_result after a poll: finish on CLOSED, else sleep and poll again *)
await_result ==
  /\ api.pc = "returned" /\ api.caller = "await_result"
  /\ IF poll_status(api.result) = "CLOSED"
       THEN api' = [api EXCEPT !.out = bet_result(api.result.v[1], api.sel),
                               !.pc = "done"]
       ELSE /\ api.polls < MaxPolls
            /\ api' = [api EXCEPT !.polls = @ + 1, !.pc = "call"]
  /\ UNCHANGED <<STATE_FILE, BALANCE_FILE, up, clock, armed, jobvars,
                 last, resetRun, fired, sk_in, sk_out, db, audit, ledger, sd, ch, sch, sv>>

NextApi ==
  \/ SafeApiEnter
  \/ AttemptReturns
  \/ AttemptRaises
  \/ create_client
  \/ get_today_markets
  \/ determine_fav_and_odds
  \/ await_result

SpecApi == InitApi /\ [][NextApi]_vars

(* ------------------------------ db_layer ------------------------------ *)
JobStatuses == {"scheduled", "running", "done", "skipped", "error"}
TerminalStatuses == {"done", "skipped", "error"}
JobIds == {"j1", "j2"}
MaxBets == 2

(* each operator gives <<table state after the call, value returned>>;    *)
(* "IntegrityError" stands for the exception re-raised after rollback     *)
record_schedule(d, job_id, status) ==
  IF job_id \in DOMAIN d.schedules
    THEN <<d, "IntegrityError">>
    ELSE <<[d EXCEPT !.schedules = Put(@, job_id, [status |-> status, error |-> <<>>])],
           "None">>

update_schedule_status(d, job_id, status, error) ==
  IF job_id \notin DOMAIN d.schedules
    THEN <<d, "None">>
    ELSE <<[d EXCEPT !.schedules[job_id] =
                       [status |-> status,
                        error |-> IF error # <<>> THEN Append(@.error, error)
                                  ELSE @.error]],
           "None">>

create_pending_bet(d, job_id) ==
  <<[d EXCEPT !.bets = Append(@, [job_id |-> job_id, result |-> "P"])],
    Len(d.bets) + 1>>

finalize_bet(d, bet_id, result_code) ==
  IF bet_id \notin DOMAIN d.bets
    THEN <<d, "None">>
    ELSE <<[d EXCEPT !.bets[bet_id].result = result_code], "None">>

InitDb ==
  /\ STATE_FILE = <<>>
  /\ BALANCE_FILE \in {<<b>> : b \in SeedBalances}
  /\ up = FALSE /\ clock = "pre" /\ armed = FALSE
  /\ IdleJobs
  /\ last = NoJob /\ resetRun = 0
  /\ fired = 0
  /\ sk_in = EmptyDict /\ sk_out = None
  /\ api = ApiIdle
  /\ db = DbEmpty /\ audit = 0 /\ ledger = NoLedger /\ sd = SdIdle /\ ch = ChIdle /\ sch = SchIdle /\ sv = SvIdle

RecordSchedule ==
  /\ \E j \in JobIds : db' = record_schedule(db, j, "scheduled")[1]
  /\ UNCHANGED <<STATE_FILE, BALANCE_FILE, up, clock, armed, jobvars,
                 last, resetRun, fired, sk_in, sk_out, api, audit, ledger, sd, ch, sch, sv>>

UpdateScheduleStatus ==
  /\ \E j \in JobIds, st \in JobStatuses :
       db' = update_schedule_status(db, j, st, <<>>)[1]
  /\ UNCHANGED <<STATE_FILE, BALANCE_FILE, up, clock, armed, jobvars,
                 last, resetRun, fired, sk_in, sk_out, api, audit, ledger, sd, ch, sch, sv>>

CreatePendingBet ==
  /\ Len(db.bets) < MaxBets
  /\ \E j \in JobIds : db' = create_pending_bet(db, j)[1]
  /\ UNCHANGED <<STATE_FILE, BALANCE_FILE, up, clock, armed, jobvars,
                 last, resetRun, fired, sk_in, sk_out, api, audit, ledger, sd, ch, sch, sv>>

FinalizeBet ==
  /\ \E b \in 1..MaxBets, code \in {"W", "L"} :
       db' = finalize_bet(db, b, code)[1]
  /\ UNCHANGED <<STATE_FILE, BALANCE_FILE, up, clock, armed, jobvars,
                 last, resetRun, fired, sk_in, sk_out, api, audit, ledger, sd, ch, sch, sv>>

NextDb == RecordSchedule \/ UpdateScheduleStatus \/ CreatePendingBet \/ FinalizeBet

SpecDb == InitDb /\ [][NextDb]_vars

(* ---------------- __main__ and schedule_races over days ---------------- *)
(* Time is counted in slots; a slot lasts BET_BUFFER_DEFAULT (the lead of  *)
(* a job before its race) and a day has the slots of TimesOfDay, the slot  *)
(* TRIGGER_SLOT beginning at 05:00.                                        *)
TimesOfDay == <<"04:59", "05:00", "05:01", "05:02">>
DayLen == Len(TimesOfDay)
tod(t) == t % DayLen
NextTrigger(t) ==
  CHOOSE u \in (t + 1)..(t + DayLen) : tod(u) = TRIGGER_SLOT

Events ==
  { [id |-> "e1", start |-> 3, skip |-> FALSE],
    [id |-> "e2", start |-> 3, skip |-> TRUE],
    [id |-> "e3", start |-> 6, skip |-> FALSE],
    [id |-> "e4", start |-> 7, skip |-> FALSE] }
EventIds == {e.id : e \in Events}
EventOf(i) == CHOOSE e \in Events : e.id = i

(* get_today_markets at time t: the markets that start between t minus   *)
(* the look-back and the next midnight, or none                           *)
today_markets(t) ==
  { {e \in Events : /\ e.start >= t - LOOKBACK
                    /\ e.start < ((t \div DayLen) + 1) * DayLen},
    {} }

bet_time(e) == e.start - BET_BUFFER_DEFAULT

too_late_strict(run_date, now) == run_date < now

(* the test that drops a race already passed or too close *)
too_late(run_date, now) == run_date <= now

past_trigger_strict(t) == tod(t) > TRIGGER_SLOT

(* now_local.time() >= 05:00 *)
past_trigger(t) == tod(t) >= TRIGGER_SLOT

(* the jobs schedule_races adds for the markets mkts at time t; add_job   *)
(* is given no id, so each job gets a fresh one                           *)
new_jobs(mkts, t, n) ==
  { [id |-> <<n, e.id>>, event |-> e.id, run_date |-> bet_time(e)] :
      e \in {m \in mkts : ~m.skip /\ ~too_late(bet_time(m), t)} }

discover(r) ==
  { [r EXCEPT !.jobs = @ \cup new_jobs(mkts, r.time, r.disc + 1),
              !.disc = @ + 1, !.discAt = r.time,
              !.seen = {m.id : m \in mkts}] : mkts \in today_markets(r.time) }

InitSched ==
  /\ STATE_FILE = <<>>
  /\ BALANCE_FILE \in {<<b>> : b \in SeedBalances}
  /\ up = FALSE /\ clock = "pre" /\ armed = FALSE
  /\ IdleJobs
  /\ last = NoJob /\ resetRun = 0
  /\ fired = 0
  /\ sk_in = EmptyDict /\ sk_out = None
  /\ api = ApiIdle
  /\ db = DbEmpty /\ audit = 0 /\ ledger = NoLedger /\ sd = SdIdle /\ ch = ChIdle /\ sv = SvIdle
  /\ sch = [SchIdle EXCEPT !.pc = "down", !.runs = [i \in EventIds |-> 0]]

(* scheduler.start() and add_job of the daily cron trigger *)
SchedStart ==
  /\ sch.pc = "down" /\ sch.starts < MaxStarts
  /\ sch' = [sch EXCEPT !.pc = "started", !.starts = @ + 1, !.jobs = {},
                         !.cron = NextTrigger(sch.time)]
  /\ UNCHANGED <<STATE_FILE, BALANCE_FILE, up, clock, armed, jobvars,
                 last, resetRun, fired, sk_in, sk_out, api, db, audit, ledger, sd, ch, sv>>

(* the start-up test: past 05:00 schedule_races runs at once *)
SchedCheck ==
  /\ sch.pc = "started"
  /\ IF past_trigger(sch.time)
       THEN sch' \in {[r EXCEPT !.pc = "running"] : r \in discover(sch)}
       ELSE sch' = [sch EXCEPT !.pc = "running"]
  /\ UNCHANGED <<STATE_FILE, BALANCE_FILE, up, clock, armed, jobvars,
                 last, resetRun, fired, sk_in, sk_out, api, db, audit, ledger, sd, ch, sv>>

(* the cron trigger fires schedule_races *)
SchedCron ==
  /\ sch.pc \in {"started", "running"} /\ sch.time = sch.cron
  /\ sch' \in {[r EXCEPT !.cron = @ + DayLen] : r \in discover(sch)}
  /\ UNCHANGED <<STATE_FILE, BALANCE_FILE, up, clock, armed, jobvars,
                 last, resetRun, fired, sk_in, sk_out, api, db, audit, ledger, sd, ch, sv>>

(* a one-shot job reaches its run date: the job body starts, the job is   *)
(* removed from the store                                                 *)
SchedJob ==
  /\ sch.pc \in {"started", "running"}
  /\ \E j \in sch.jobs :
       /\ j.run_date = sch.time
       /\ sch' = [sch EXCEPT !.jobs = @ \ {j}, !.runs[j.event] = @ + 1]
  /\ UNCHANGED <<STATE_FILE, BALANCE_FILE, up, clock, armed, jobvars,
                 last, resetRun, fired, sk_in, sk_out, api, db, audit, ledger, sd, ch, sv>>

(* time passes; a running scheduler first fires what is due *)
SchedTick ==
  /\ sch.pc # "idle" /\ sch.time < MaxTime
  /\ sch.pc # "down" =>
       /\ sch.time # sch.cron
       /\ \A j \in sch.jobs : j.run_date # sch.time
  /\ sch' = [sch EXCEPT !.time = @ + 1]
  /\ UNCHANGED <<STATE_FILE, BALANCE_FILE, up, clock, armed, jobvars,
                 last, resetRun, fired, sk_in, sk_out, api, db, audit, ledger, sd, ch, sv>>

(* the process stops: the in-memory job store is lost *)
SchedStop ==
  /\ sch.pc \in {"started", "running"}
  /\ sch' = [sch EXCEPT !.pc = "down", !.jobs = {}]
  /\ UNCHANGED <<STATE_FILE, BALANCE_FILE, up, clock, armed, jobvars,
                 last, resetRun, fired, sk_in, sk_out, api, db, audit, ledger, sd, ch, sv>>

NextSched ==
  SchedStart \/ SchedCheck \/ SchedCron \/ SchedJob \/ SchedTick \/ SchedStop

SpecSched == InitSched /\ [][NextSched]_vars

(* --------------------- save_state and load_state ---------------------- *)
(* The text of the state file is a sequence of tokens: an opening brace,  *)
(* one token per key and value, a closing brace.                          *)
SaveKeys == <<"balance", "leg", "accumulated_losses">>
Snapshots ==
  { [balance |-> 5000, leg |-> 1, accumulated_losses |-> 0],
    [balance |-> 4800, leg |-> 2, accumulated_losses |-> 200],
    [balance |-> 4400, leg |-> 3, accumulated_losses |-> 600],
    [balance |-> 5100, leg |-> 1, accumulated_losses |-> 0] }

Brace(t) == [t |-> t, k |-> "", v |-> 0]
Pair(k, v) == [t |-> "pair", k |-> k, v |-> v]

(* json.dump: the text of dict d *)
dumps(d) ==
  <<Brace("{")>> \o [i \in 1..Len(SaveKeys) |-> Pair(SaveKeys[i], d[SaveKeys[i]])]
               \o <<Brace("}")>>

(* json.load: the dict of a well-formed text, JSONDecodeError otherwise *)
loads(text) ==
  IF /\ Len(text) >= 2
     /\ text[1].t = "{" /\ text[Len(text)].t = "}"
     /\ \A i \in 2..(Len(text) - 1) : text[i].t = "pair"
    THEN [err |-> "",
          value |-> [k \in {text[i].k : i \in 2..(Len(text) - 1)} |->
                       text[CHOOSE i \in 2..(Len(text) - 1) : text[i].k = k].v]]
    ELSE [err |-> "JSONDecodeError", value |-> EmptyDict]

InitSave ==
  /\ STATE_FILE = <<>>
  /\ BALANCE_FILE \in {<<b>> : b \in SeedBalances}
  /\ up = FALSE /\ clock = "pre" /\ armed = FALSE
  /\ IdleJobs
  /\ last = NoJob /\ resetRun = 0
  /\ fired = 0
  /\ sk_in = EmptyDict /\ sk_out = None
  /\ api = ApiIdle
  /\ db = DbEmpty /\ audit = 0 /\ ledger = NoLedger /\ sd = SdIdle /\ ch = ChIdle /\ sch = SchIdle
  /\ \E d \in Snapshots :
       sv = [SvIdle EXCEPT !.pc = "idle", !.old = d, !.new = d,
                           !.file = dumps(d)]

(* save_state: open(STATE_FILE, "w") truncates the file *)
SaveOpen ==
  /\ sv.pc = "idle"
  /\ \E d \in Snapshots :
       sv' = [sv EXCEPT !.pc = "writing", !.new = d,
                        !.old = IF loads(sv.file).err = ""
                                  THEN loads(sv.file).value ELSE sv.old,
                        !.file = <<>>, !.todo = dumps(d),
                        !.loaded = NotLoaded]
  /\ UNCHANGED <<STATE_FILE, BALANCE_FILE, up, clock, armed, jobvars,
                 last, resetRun, fired, sk_in, sk_out, api, db, audit, ledger, sd, ch, sch>>

(* json.dump: the next piece of the text reaches the file *)
SaveWrite ==
  /\ sv.pc = "writing" /\ sv.todo # <<>>
  /\ sv' = [sv EXCEPT !.file = Append(@, Head(sv.todo)),
                       !.todo = Tail(@)]
  /\ UNCHANGED <<STATE_FILE, BALANCE_FILE, up, clock, armed, jobvars,
                 last, resetRun, fired, sk_in, sk_out, api, db, audit, ledger, sd, ch, sch>>

(* the with block closes the file: save_state returns *)
SaveClose ==
  /\ sv.pc = "writing" /\ sv.todo = <<>>
  /\ sv' = [sv EXCEPT !.pc = "idle"]
  /\ UNCHANGED <<STATE_FILE, BALANCE_FILE, up, clock, armed, jobvars,
                 last, resetRun, fired, sk_in, sk_out, api, db, audit, ledger, sd, ch, sch>>

(* the process dies inside save_state *)
SaveCrash ==
  /\ sv.pc = "writing"
  /\ sv' = [sv EXCEPT !.pc = "crashed", !.todo = <<>>]
  /\ UNCHANGED <<STATE_FILE, BALANCE_FILE, up, clock, armed, jobvars,
                 last, resetRun, fired, sk_in, sk_out, api, db, audit, ledger, sd, ch, sch>>

(* load_state, in the same process after a save or in the next process *)
SaveLoad ==
  /\ sv.pc \in {"idle", "crashed"}
  /\ sv' = [sv EXCEPT !.pc = "idle", !.loaded = loads(sv.file)]
  /\ UNCHANGED <<STATE_FILE, BALANCE_FILE, up, clock, armed, jobvars,
                 last, resetRun, fired, sk_in, sk_out, api, db, audit, ledger, sd, ch, sch>>

NextSave == SaveOpen \/ SaveWrite \/ SaveClose \/ SaveCrash \/ SaveLoad

SpecSave == InitSave /\ [][NextSave]_vars

(* -------------- absent files: sys.exit in load_initial_balance --------- *)
(* bank_balance.json is complete, absent, or lacks the key "balance";     *)
(* chase_state.json is present or absent. An operator may remove or       *)
(* restore either file at any time.                                       *)
SeedFiles == {"ok", "missing", "no_balance"}
StateFiles == {"present", "missing"}

(* the steps of place_bet_job at which a failure other than the missing   *)
(* seed can be raised; all of them raise subclasses of Exception          *)
JobFailures ==
  {"none", "load_state", "get_cutoff", "determine_fav_and_odds",
   "place_chase_bet", "await_result", "save_state", "append_result"}

(* load_initial_balance calls sys.exit(1) *)
load_initial_balance_exits(seed) == seed # "ok"

(* what load_state raises: SystemExit through load_initial_balance when   *)
(* the state file is absent and the seed unusable                         *)
load_state_raises(statefile, seed, fail) ==
  IF statefile = "missing"
    THEN IF load_initial_balance_exits(seed) THEN "SystemExit" ELSE "none"
    ELSE IF fail = "load_state" THEN "Exception" ELSE "none"

(* the clause `except Exception` of place_bet_job *)
except_Exception(raised) == raised = "Exception"

(* what leaves the body of place_bet_job *)
place_bet_job_raises(statefile, seed, fail) ==
  LET r1 == load_state_raises(statefile, seed, fail)
      raised == IF r1 # "none" THEN r1
                ELSE IF fail \in JobFailures \ {"none", "load_state"}
                       THEN "Exception" ELSE "none"
  IN IF raised = "none" \/ except_Exception(raised) THEN "none" ELSE raised

(* the job got as far as the first save_state *)
reaches_save(statefile, seed, fail) ==
  /\ load_state_raises(statefile, seed, fail) = "none"
  /\ fail \notin {"get_cutoff", "determine_fav_and_odds"}

SdDown ==
  [pc |-> "down", clock |-> "pre", seed |-> "ok", statefile |-> "missing",
   armed |-> FALSE, reset |-> "none", escaped |-> "none", wager |-> FALSE]

InitSeed ==
  /\ STATE_FILE = <<>>
  /\ BALANCE_FILE \in {<<b>> : b \in SeedBalances}
  /\ up = FALSE /\ clock = "pre" /\ armed = FALSE
  /\ IdleJobs
  /\ last = NoJob /\ resetRun = 0
  /\ fired = 0
  /\ sk_in = EmptyDict /\ sk_out = None
  /\ api = ApiIdle
  /\ db = DbEmpty /\ audit = 0 /\ ledger = NoLedger /\ ch = ChIdle
  /\ sch = SchIdle /\ sv = SvIdle
  /\ \E f \in SeedFiles, g \in StateFiles :
       sd = [SdDown EXCEPT !.seed = f, !.statefile = g]

(* schedule_races as far as daily_reset_job, on the main thread or on a   *)
(* pool thread: sys.exit ends the process only on the main thread         *)
sd_schedule_races(r, thread) ==
  IF load_initial_balance_exits(r.seed)
    THEN [r EXCEPT !.reset = "exit",
                   !.pc = IF thread = "main" THEN "halted" ELSE "running",
                   !.armed = IF thread = "main" THEN FALSE ELSE @]
    ELSE [r EXCEPT !.reset = "saved", !.statefile = "present",
                   !.armed = TRUE, !.pc = "running"]

(* scheduler.start() and add_job of the cron trigger *)
SeedStart ==
  /\ sd.pc \in {"down", "halted"}
  /\ sd' = [sd EXCEPT !.pc = "started", !.reset = "none", !.armed = FALSE,
                       !.escaped = "none", !.wager = FALSE]
  /\ UNCHANGED <<STATE_FILE, BALANCE_FILE, up, clock, armed, jobvars,
                 last, resetRun, fired, sk_in, sk_out, api, db, audit,
                 ledger, ch, sch, sv>>

(* the start-up test on the main thread *)
SeedCheck ==
  /\ sd.pc = "started"
  /\ sd' = IF sd.clock # "pre" THEN sd_schedule_races(sd, "main")
                                ELSE [sd EXCEPT !.pc = "running"]
  /\ UNCHANGED <<STATE_FILE, BALANCE_FILE, up, clock, armed, jobvars,
                 last, resetRun, fired, sk_in, sk_out, api, db, audit,
                 ledger, ch, sch, sv>>

(* 05:00: the cron trigger runs schedule_races on a pool thread *)
SeedCron ==
  /\ sd.pc \in {"started", "running"} /\ sd.clock = "pre"
  /\ sd' = [sd_schedule_races(sd, "pool") EXCEPT !.clock = "open", !.pc = sd.pc]
  /\ UNCHANGED <<STATE_FILE, BALANCE_FILE, up, clock, armed, jobvars,
                 last, resetRun, fired, sk_in, sk_out, api, db, audit,
                 ledger, ch, sch, sv>>

(* an armed job runs place_bet_job on a pool thread *)
SeedJob ==
  /\ sd.pc \in {"started", "running"} /\ sd.armed /\ sd.clock # "pre"
  /\ \E fail \in JobFailures, more \in BOOLEAN :
       sd' = [sd EXCEPT
                !.armed = more,
                !.escaped = place_bet_job_raises(sd.statefile, sd.seed, fail),
                !.statefile = IF reaches_save(sd.statefile, sd.seed, fail)
                                THEN "present" ELSE @,
                !.wager = reaches_save(sd.statefile, sd.seed, fail)
                            /\ fail \notin {"place_chase_bet", "save_state"}]
  /\ UNCHANGED <<STATE_FILE, BALANCE_FILE, up, clock, armed, jobvars,
                 last, resetRun, fired, sk_in, sk_out, api, db, audit,
                 ledger, ch, sch, sv>>

(* time passes; the run dates of the armed jobs precede midnight *)
SeedTick ==
  /\ \/ sd.clock = "pre" /\ sd.pc \in {"down", "halted"}
        /\ sd' = [sd EXCEPT !.clock = "open"]
     \/ sd.clock = "open" /\ sd' = [sd EXCEPT !.clock = "late"]
     \/ sd.clock = "late"
        /\ sd' = [sd EXCEPT !.clock = "pre", !.armed = FALSE, !.reset = "none"]
  /\ sd.pc # "unused"
  /\ UNCHANGED <<STATE_FILE, BALANCE_FILE, up, clock, armed, jobvars,
                 last, resetRun, fired, sk_in, sk_out, api, db, audit,
                 ledger, ch, sch, sv>>

(* the operator removes or restores a file *)
SeedOperator ==
  /\ sd.pc # "unused"
  /\ \E f \in SeedFiles, g \in StateFiles :
       /\ (f # sd.seed) # (g # sd.statefile)
       /\ g = "present" => sd.statefile = "present"
       /\ sd' = [sd EXCEPT !.seed = f, !.statefile = g]
  /\ UNCHANGED <<STATE_FILE, BALANCE_FILE, up, clock, armed, jobvars,
                 last, resetRun, fired, sk_in, sk_out, api, db, audit,
                 ledger, ch, sch, sv>>

(* the process is stopped *)
SeedStop ==
  /\ sd.pc \in {"started", "running"}
  /\ sd' = [sd EXCEPT !.pc = "down", !.armed = FALSE]
  /\ UNCHANGED <<STATE_FILE, BALANCE_FILE, up, clock, armed, jobvars,
                 last, resetRun, fired, sk_in, sk_out, api, db, audit,
                 ledger, ch, sch, sv>>

NextSeed ==
  SeedStart \/ SeedCheck \/ SeedCron \/ SeedJob \/ SeedTick
    \/ SeedOperator \/ SeedStop

SpecSeed == InitSeed /\ [][NextSeed]_vars

(* ------------------- one chase, job after job ------------------------- *)
(* The jobs of one day run one after the other on a single thread, each   *)
(* from load_state to its last save_state, before the cutoff.             *)
ChaseSeeds == {200, 80000000}
ChaseOdds == {225, 300}

InitChase ==
  /\ STATE_FILE = <<>>
  /\ BALANCE_FILE \in {<<b>> : b \in ChaseSeeds}
  /\ up = FALSE /\ clock = "pre" /\ armed = FALSE
  /\ IdleJobs
  /\ last = NoJob /\ resetRun = 0
  /\ fired = 0
  /\ sk_in = EmptyDict /\ sk_out = None
  /\ api = ApiIdle
  /\ db = DbEmpty /\ audit = 0 /\ ledger = NoLedger /\ sd = SdIdle
  /\ sch = SchIdle /\ sv = SvIdle
  /\ ch = [pc |-> "on", file |-> fresh_state, jobs |-> 0,
           wagerLeg |-> None, wagerStake |-> None]

(* place_bet_job from start to end: guards, stake, wager, settlement *)
ChaseJob ==
  /\ ch.pc = "on" /\ ch.jobs < MaxJobs
  /\ LET s == ch.file
         l == Get(s, "leg", 1)
         b == Get(s, "balance", 0)
         losses == Get(s, "accumulated_losses", 0)
     IN IF skip_guard(s) # "go"
          THEN ch' = [ch EXCEPT !.jobs = @ + 1, !.wagerLeg = None,
                                !.wagerStake = None]
          ELSE \E o \in ChaseOdds, win \in BOOLEAN :
                 LET st == calculate_next_stake(Get(s, "prev_stake", None),
                                                l, o, losses, b)
                     newbal == b + profit_of(win, o, st)
                 IN ch' = [ch EXCEPT
                             !.jobs = @ + 1,
                             !.wagerLeg = l, !.wagerStake = st,
                             !.file = settled_state(mark_running(s), win, l,
                                                    losses, st, newbal)]
  /\ UNCHANGED <<STATE_FILE, BALANCE_FILE, up, clock, armed, jobvars,
                 last, resetRun, fired, sk_in, sk_out, api, db, audit,
                 ledger, sd, sch, sv>>

(* daily_reset_job between two jobs *)
ChaseReset ==
  /\ ch.pc = "on" /\ ch.jobs < MaxJobs /\ ch.jobs > 0
  /\ ch' = [ch EXCEPT !.jobs = @ + 1, !.file = fresh_state,
                       !.wagerLeg = None, !.wagerStake = None]
  /\ UNCHANGED <<STATE_FILE, BALANCE_FILE, up, clock, armed, jobvars,
                 last, resetRun, fired, sk_in, sk_out, api, db, audit,
                 ledger, sd, sch, sv>>

NextChase == ChaseJob \/ ChaseReset

SpecChase == InitChase /\ [][NextChase]_vars

(* ------------------------------ steps --------------------------------- *)
FireStep(w) ==
  /\ fired' = fired + 1
  /\ pc[w] = "idle" /\ \A v \in Workers : v < w => pc[v] # "idle"
PlaceStep(w) == pc[w] = "resolving" /\ pc'[w] = "placed"
SettleStep(w) ==
  pc[w] = "placed" /\ pc'[w] = "idle" /\ last'.w = w /\ last'.how = "settled"
FailStep(w) ==
  pc[w] = "placed" /\ pc'[w] = "idle" /\ last'.w = w /\ last'.how = "error_place"
JobEnds(w) ==
  /\ up' /\ pc'[w] = "idle"
  /\ FireStep(w) \/ pc[w] \in {"resolving", "placed"}
Persisted == STATE_FILE[1]
RECURSIVE SumSeq(_)
SumSeq(q) == IF q = <<>> THEN 0 ELSE Head(q) + SumSeq(Tail(q))
LastOf(q, k) == SubSeq(q, Len(q) - k + 1, Len(q))
ResetStep ==
  \/ up /\ clock = "pre" /\ clock' = "open"
  \/ ~up /\ up' /\ clock # "pre"
IsResetState(f) ==
  /\ f # <<>>
  /\ f[1].balance = load_initial_balance
  /\ f[1].leg = 1 /\ f[1].accumulated_losses = 0
SkipHows == {"skip_cutoff", "skip_balance", "skip_flag", "skip_nodata"}

(* ------------------------------ claims -------------------------------- *)

(* C1: in every reachable state at most one wager is outstanding (placed   *)
(* and not yet settled), whatever the interleaving of the job bodies.      *)
C1_AtMostOneOutstanding == Cardinality(Outstanding) <= 1

(* C2: with no other job in flight, the persisted is_running_race is false *)
(* when a job invokes calculate_next_stake, and false again once the job   *)
(* has ended, on every path by which it ends.                              *)
C2_NoJobLeavesFlagSet ==
  [][\A w \in Workers :
       /\ (PlaceStep(w) /\ InFlight = {w}) => ~IsRunning(STATE_FILE)
       /\ (JobEnds(w) /\ InFlight' = {}) => ~IsRunning(STATE_FILE')]_vars

(* C3: after a job ended because placing its wager failed, the next job to *)
(* fire that passes the cutoff and balance guards passes the flag guard    *)
(* too, and goes on at the leg of the failed job.                          *)
C3_NextJobRetriesSameLeg ==
  [][\A w \in Workers :
       ( /\ FireStep(w)
         /\ last.how = "error_place"
         /\ InFlight = {}
         /\ last'.how \notin {"skip_cutoff", "skip_balance"} )
       => /\ pc'[w] = "resolving"
          /\ state'[w].leg = last.leg]_vars

(* C4: a job whose wager placement fails persists, in its only save, the   *)
(* leg, balance, accumulated_losses, prev_stake and chase_active it loaded *)
(* when it fired, and the failing step itself writes nothing.              *)
C4_FailedPlacementKeepsChase ==
  [][\A w \in Workers :
       /\ PlaceStep(w) =>
            /\ STATE_FILE'[1].leg = state[w].leg
            /\ STATE_FILE'[1].balance = state[w].balance
            /\ STATE_FILE'[1].accumulated_losses = state[w].accumulated_losses
            /\ STATE_FILE'[1].prev_stake = state[w].prev_stake
            /\ STATE_FILE'[1].chase_active = state[w].chase_active
       /\ FailStep(w) => STATE_FILE' = STATE_FILE]_vars

C4_Witness ==
  /\ last.how = "error_place" /\ last.leg > 1
  /\ Persisted.leg = last.leg /\ IsRunning(STATE_FILE)

(* C5: the state persisted by a job that settles a wager as won has        *)
(* leg = 1, accumulated_losses = 0, prev_stake = None, chase_active false. *)
C5_WinResetsChase ==
  [][\A w \in Workers :
       (SettleStep(w) /\ last'.win)
       => /\ STATE_FILE'[1].leg = 1
          /\ STATE_FILE'[1].accumulated_losses = 0
          /\ STATE_FILE'[1].prev_stake = None
          /\ STATE_FILE'[1].chase_active = FALSE]_vars

C5_Witness ==
  /\ last.how = "settled" /\ last.win /\ last.leg > 1
  /\ Persisted.leg = 1 /\ Persisted.prev_stake = None

(* C6: the state persisted by a job that settles a wager as lost has       *)
(* accumulated_losses = loaded value + stake, prev_stake = stake and       *)
(* leg = loaded leg + 1.                                                   *)
C6_LossAdvancesChase ==
  [][\A w \in Workers :
       (SettleStep(w) /\ ~last'.win)
       => /\ STATE_FILE'[1].accumulated_losses = acc_losses(w) + stake[w]
          /\ STATE_FILE'[1].prev_stake = stake[w]
          /\ STATE_FILE'[1].leg = leg(w) + 1]_vars

C6_Witness ==
  /\ last.how = "settled" /\ ~last.win /\ last.leg > 1
  /\ Persisted.leg = last.leg + 1
  /\ Persisted.accumulated_losses > Persisted.prev_stake

(* C7: the state persisted by a job that settles a wager has balance =     *)
(* loaded balance + stake * (odds - 1) on a win, loaded balance - stake on *)
(* a loss, and that same save has is_running_race false.                   *)
C7_BalanceGetsProfit ==
  [][\A w \in Workers :
       SettleStep(w)
       => /\ last'.win =>
               100 * (STATE_FILE'[1].balance - bal(w)) = stake[w] * (odds[w] - 100)
          /\ ~last'.win => STATE_FILE'[1].balance = bal(w) - stake[w]
          /\ STATE_FILE'[1].is_running_race = FALSE]_vars

C7_Witness ==
  /\ last.how = "settled" /\ last.win /\ last.leg = 1
  /\ Persisted.balance > BALANCE_FILE[1] /\ ~IsRunning(STATE_FILE)

(* C8: a process start never overwrites the leg, accumulated_losses,       *)
(* prev_stake or balance of an existing state file: the restarted process  *)
(* resumes from the last persisted snapshot.                               *)
C8_RestartResumesChase ==
  [][(~up /\ up' /\ STATE_FILE # <<>>)
     => /\ STATE_FILE'[1].leg = Persisted.leg
        /\ STATE_FILE'[1].accumulated_losses = Persisted.accumulated_losses
        /\ STATE_FILE'[1].prev_stake = Persisted.prev_stake
        /\ STATE_FILE'[1].balance = Persisted.balance]_vars

(* C9: from any prior state file, daily_reset_job run once or twice gives  *)
(* the same state: balance = the seed balance, leg = 1, accumulated_losses *)
(* = 0, prev_stake = None, chase_active false, is_running_race not set.    *)
C9_DailyResetIdempotent ==
  LET once == daily_reset_job(STATE_FILE)
      twice == daily_reset_job(<<once>>)
  IN  /\ twice = once
      /\ once.balance = BALANCE_FILE[1]
      /\ once.leg = 1 /\ once.accumulated_losses = 0
      /\ once.prev_stake = None /\ once.chase_active = FALSE
      /\ "is_running_race" \notin DOMAIN once
      /\ resetRun >= 1 => STATE_FILE = <<once>>

C9_Witness ==
  /\ resetRun = 2 /\ up
  /\ STATE_FILE = <<daily_reset_job(STATE_FILE)>>

(* C10: at legs 2..5, for a prev_stake of at least the minimum unit, the   *)
(* stake is ceil_penny(prev_stake * 1.50) when odds >= 3.0,                *)
(* ceil_penny(prev_stake * 1.65) when 2.25 <= odds < 3.0,                  *)
(* ceil_penny(accumulated_losses * 1.20 / (odds - 1)) when 1 < odds <      *)
(* 2.25, the minimum unit when odds <= 1, and never below the minimum.     *)
IsCeilPenny(r, n, d) == r % PENNY = 0 /\ r * d >= n /\ (r - PENNY) * d < n
IsClampedCeil(r, n, d) ==
  r >= MIN_STAKE /\ (IsCeilPenny(r, n, d) \/ (r = MIN_STAKE /\ n <= 0))

C11_Leg1StakeInInterval ==
  (sk_out # None /\ sk_in.leg <= 1)
  => /\ sk_out >= MIN_STAKE
     /\ 100 * sk_out <= Min(sk_in.balance, ACCOUNT_CAP) * 4
     /\ sk_out <= sk_in.balance

(* C11 as amended: the leg-1 stake is min(balance, 5000) * 0.04 rounded up *)
(* to the next whole cent and raised to at least 0.01, and it does not     *)
(* exceed a balance of at least 0.01.                                      *)
C11_Leg1StakeCeiled ==
  (sk_out # None /\ sk_in.leg <= 1)
  => /\ IsClampedCeil(sk_out, Min(sk_in.balance, ACCOUNT_CAP) * 4, 100)
     /\ sk_in.balance >= MIN_STAKE => sk_out <= sk_in.balance

C11_Witness ==
  /\ sk_out # None /\ sk_in.leg = 1
  /\ sk_in.balance = 10100 /\ sk_out = 500

C13_WholeCents ==
  /\ \A w \in Workers : pc[w] = "placed" => stake[w] % PENNY = 0
  /\ STATE_FILE # <<>> => Persisted.balance % PENNY = 0

(* C14: at legs 2..5 with 1 < odds < 2.25 a win at the stake recovers the  *)
(* buffered losses: stake * (odds - 1) >= accumulated_losses * 1.20.       *)
C14_ShortOddsRecovers ==
  (sk_out # None /\ sk_in.leg \in 2..5
     /\ sk_in.next_odds > 100 /\ sk_in.next_odds < 225)
  => sk_out * (sk_in.next_odds - 100) >= sk_in.acc_losses * 120

C14_Witness ==
  /\ sk_out # None /\ sk_in.leg = 4 /\ sk_in.next_odds = 150
  /\ sk_in.acc_losses = 1900 /\ sk_out = 4600

(* C15: a job never places a wager whose stake exceeds the balance it      *)
(* loaded, and the persisted balance is never negative.                    *)
C15_StakeWithinBalance ==
  /\ \A w \in Workers : pc[w] = "placed" => stake[w] <= bal(w)
  /\ STATE_FILE # <<>> => Persisted.balance >= 0

(* C16: should_skip returns true exactly when some skip-flagged denylist   *)
(* entry has an event name equal to the candidate event name or a          *)
(* non-empty track string contained, ignoring case, in the candidate track *)
(* name, or some skip-flagged grade rule (mapping or list form) has a      *)
(* track key contained, ignoring case, in the candidate track name.        *)
Range(q) == {q[i] : i \in DOMAIN q}
HasName(row) == "event_name" \in DOMAIN row \/ "race_name" \in DOMAIN row
HasTrack(row) == "track" \in DOMAIN row \/ "venue" \in DOMAIN row
NameOf(row) == strip(get_or(row, "event_name", "race_name"))
TrackOf(row) == lower(strip(get_or(row, "track", "venue")))
Flagged(row) == Get(row, "skip", FALSE)
FlaggedGrade(v) ==
  (v.kind = "bool" /\ v.on) \/ (v.kind = "dict" /\ Get(v, "skip", FALSE))
CandEvent == strip(sk_in.event_name)
CandTrack == lower(strip(sk_in.track_name))

C16_SkipExactlyOnMatch ==
  sk_out # None =>
    ( sk_out = 1 <=>
      \/ \E row \in Range(sk_in.low_win_list) :
            /\ Flagged(row)
            /\ \/ HasName(row) /\ NameOf(row) = CandEvent
               \/ TrackOf(row) # <<>> /\ Contains(TrackOf(row), CandTrack)
      \/ /\ sk_in.track_grades.form = "dict"
         /\ \E it \in Range(sk_in.track_grades.items) :
              FlaggedGrade(it.v) /\ Contains(lower(strip(it.k)), CandTrack)
      \/ /\ sk_in.track_grades.form = "list"
         /\ \E row \in Range(sk_in.track_grades.rows) :
              Flagged(row) /\ HasTrack(row) /\ Contains(TrackOf(row), CandTrack) )

(* C16 as amended: the event name of a denylist entry, the track of a      *)
(* list-form grade rule and the key of a mapping-form grade rule only      *)
(* match when they are non-empty.                                          *)
C16_SkipExactlyOnNonEmptyMatch ==
  sk_out # None =>
    ( sk_out = 1 <=>
      \/ \E row \in Range(sk_in.low_win_list) :
            /\ Flagged(row)
            /\ \/ NameOf(row) # <<>> /\ NameOf(row) = CandEvent
               \/ TrackOf(row) # <<>> /\ Contains(TrackOf(row), CandTrack)
      \/ /\ sk_in.track_grades.form = "dict"
         /\ \E it \in Range(sk_in.track_grades.items) :
              /\ FlaggedGrade(it.v)
              /\ it.k # <<>> /\ Contains(lower(strip(it.k)), CandTrack)
      \/ /\ sk_in.track_grades.form = "list"
         /\ \E row \in Range(sk_in.track_grades.rows) :
              /\ Flagged(row)
              /\ TrackOf(row) # <<>> /\ Contains(TrackOf(row), CandTrack) )

C16_Witness ==
  /\ sk_out = 1
  /\ sk_in.event_name = <<"A">> /\ sk_in.track_name = <<"A", "b">>
  /\ sk_in.low_win_list = <<[skip |-> FALSE, event_name |-> <<"a">>,
                             track |-> <<"b">>]>>
  /\ sk_in.track_grades =
       [form |-> "dict",
        items |-> <<[k |-> <<"A">>, v |-> [kind |-> "bool", on |-> TRUE]]>>]

(* C17: safe_api_call invokes the function until its first success and at *)
(* most `retries` times: if attempt k is the first that does not raise it  *)
(* is invoked exactly k times and a value is returned; if all `retries`    *)
(* attempts raise it is invoked exactly `retries` times and None is        *)
(* returned.                                                               *)
ApiReturned == api.pc \notin {"idle", "call", "attempt"}

C17_RetriesUntilFirstSuccess ==
  /\ api.calls <= Max(api.retries, 0)
  /\ api.pc = "attempt" => api.calls = api.fails /\ api.attempt = api.fails + 1
  /\ ApiReturned =>
       IF api.result.kind = "value"
         THEN /\ api.calls = api.fails + 1
              /\ api.result.v \in ApiValues(api.caller)
         ELSE /\ api.result = Unavailable
              /\ api.fails = Max(api.retries, 0)
              /\ api.calls = api.fails

C17_Witness ==
  /\ api.caller = "direct" /\ api.pc = "returned" /\ api.retries = 3
  /\ api.result.kind = "value" /\ api.calls = 3 /\ api.fails = 2

(* C18: after each failed attempt, every one of the up to `retries`        *)
(* failures, the invoker sleeps the current delay and doubles it: the      *)
(* sleep after the k-th failure lasts initialDelay * 2^(k-1).              *)
C18_SleepAfterEveryFailure ==
  api.pc # "idle" =>
    /\ Len(api.slept) = api.fails
    /\ \A k \in 1..Len(api.slept) : api.slept[k] = api.delay0 * 2^(k - 1)

(* C18 as amended: a sleep follows every failed attempt but the last       *)
(* allowed one (the `retries`-th), after which the call returns at once.   *)
C18_SleepBetweenAttempts ==
  api.pc # "idle" =>
    /\ Len(api.slept) = IF api.fails = api.retries /\ api.fails > 0
                          THEN api.fails - 1 ELSE api.fails
    /\ \A k \in 1..Len(api.slept) : api.slept[k] = api.delay0 * 2^(k - 1)

C18_Witness ==
  /\ api.caller = "direct" /\ api.pc = "returned" /\ api.retries = 3
  /\ api.delay0 = 3 /\ api.result = Unavailable
  /\ api.fails = 3 /\ api.slept = <<3, 6>>

(* C19: after an unavailable result no caller of safe_api_call goes on as  *)
(* if the call had succeeded: it skips (or, in await_result, polls again). *)
C19_UnavailableIsSkipped ==
  api.pc \in {"proceed", "done"} => api.result # Unavailable

(* C20: await_result sets a result only after a poll reported CLOSED, to   *)
(* WON exactly when the closed book's winner has the selection id of the   *)
(* placed selection and to LOST otherwise; after an unavailable poll or a  *)
(* poll with any other status the result is still pending.                 *)
C20_ResultOnlyWhenClosed ==
  api.caller = "await_result" =>
    /\ api.pc = "done" <=> api.out # "PENDING"
    /\ api.out # "PENDING" =>
         /\ api.result.kind = "value" /\ Len(api.result.v) = 1
         /\ api.result.v[1].status = "CLOSED"
         /\ api.out \in {"WON", "LOST"}
         /\ api.out = "WON" <=>
              \E i \in DOMAIN api.result.v[1].runners :
                /\ api.result.v[1].runners[i].status = "WINNER"
                /\ api.result.v[1].runners[i].selection_id = api.sel

C20_Witness ==
  /\ api.caller = "await_result" /\ api.pc = "done" /\ api.polls = 2
  /\ api.out = "WON" /\ api.sel = 1 /\ api.fails = 1

(* C21: the settlement poll has no timeout: when the provider eventually   *)
(* reports closure the job that awaits settlement eventually ends, and as  *)
(* long as a job awaits settlement it does not end otherwise and           *)
(* is_running_race stays set.                                              *)
C21_PollHoldsFlagUntilClosure ==
  /\ [](\A w \in Workers : pc[w] = "placed" => IsRunning(STATE_FILE))
  /\ \A w \in Workers : (pc[w] = "placed") ~> (pc[w] # "placed")

(* C22: every job that has ended has exactly one terminal status (done,    *)
(* skipped or error) recorded for it, whatever the path it took through    *)
(* the job body.                                                           *)
C22_EndedJobHasTerminalStatus ==
  last.how # "none" =>
    \E j \in DOMAIN db.schedules : db.schedules[j].status \in TerminalStatuses

(* C23: the status of a schedule row only moves scheduled -> running ->    *)
(* done, skipped or error, and a terminal status is never changed by a     *)
(* later status update.                                                    *)
C23_StatusMovesForwardOnly ==
  [][\A j \in DOMAIN db.schedules :
       LET a == db.schedules[j].status
           b == db'.schedules[j].status
       IN  \/ a = b
           \/ a = "scheduled" /\ b = "running"
           \/ a = "running" /\ b \in TerminalStatuses]_vars

(* C24: while a wager is placed and not yet settled, a bet record with     *)
(* result pending exists for it, recorded before the wager was placed.     *)
C24_PendingRecordWhileOutstanding ==
  \A w \in Workers :
    pc[w] = "placed" => \E i \in DOMAIN db.bets : db.bets[i].result = "P"

(* C25: scheduling is idempotent per event: jobs armed for the same event *)
(* and fire time carry the same id, an event has at most one armed job,   *)
(* and the job body starts at most once per event.                        *)
C25_OneArmedJobPerEvent ==
  sch.pc # "idle" =>
    /\ \A j, k \in sch.jobs :
         (j.event = k.event /\ j.run_date = k.run_date) => j.id = k.id
    /\ \A i \in EventIds : Cardinality({j \in sch.jobs : j.event = i}) <= 1
    /\ \A i \in EventIds : sch.runs[i] <= 1

(* C26: a discovery arms one job for a discovered event exactly when the  *)
(* event is not skipped and its fire time (start minus lead) is strictly  *)
(* later than the discovery time; the job runs at that fire time; other   *)
(* events get no job.                                                     *)
C26_ArmsExactlyFutureUnskipped ==
  [][sch'.disc # sch.disc =>
      LET added == sch'.jobs \ sch.jobs
      IN /\ \A i \in EventIds :
              Cardinality({j \in added : j.event = i}) =
                IF /\ i \in sch'.seen
                   /\ ~EventOf(i).skip
                   /\ EventOf(i).start - BET_BUFFER_DEFAULT > sch.time
                  THEN 1 ELSE 0
         /\ \A j \in added :
              j.run_date = EventOf(j.event).start - BET_BUFFER_DEFAULT]_vars

(* a discovery met a skipped event, an event whose fire time is the       *)
(* discovery time, and an event it armed                                  *)
C26_Witness ==
  /\ sch.pc = "running" /\ sch.discAt = 5
  /\ {"e2", "e3", "e4"} \subseteq sch.seen
  /\ \E j \in sch.jobs : j.event = "e4" /\ j.run_date = 6
  /\ ~ \E j \in sch.jobs : j.event = "e3"

(* C27: the start-up test runs a discovery exactly when the time of day   *)
(* is at or after 05:00; a discovery only runs at that test or at the     *)
(* daily trigger; a running process does not leave the trigger time       *)
(* without a discovery having run at it.                                  *)
C27_DiscoveryAtStartAndTrigger ==
  [][/\ (sch.pc = "started" /\ sch'.pc = "running") =>
          (sch'.disc # sch.disc <=> tod(sch.time) >= TRIGGER_SLOT)
     /\ sch'.disc # sch.disc =>
          \/ sch.pc = "started" /\ sch'.pc = "running"
          \/ tod(sch.time) = TRIGGER_SLOT /\ sch'.cron = sch.cron + DayLen
     /\ (sch.pc = "running" /\ sch'.time # sch.time
            /\ tod(sch.time) = TRIGGER_SLOT) => sch.discAt = sch.time]_vars

(* a process started before 05:00 ran no discovery at start and ran one   *)
(* at the trigger of that day and at the trigger of the next day          *)
C27_Witness ==
  /\ sch.pc = "running" /\ sch.starts = 1
  /\ sch.disc = 2 /\ sch.discAt = 5

(* C28: a job that meets a guard (after the cutoff at leg 1, balance      *)
(* below the minimum stake, flag set) ends at once as skipped, and a job  *)
(* that skips for a guard or for missing favourite or odds computes no    *)
(* stake, writes no state file and appends no audit row.                  *)
C28_SkipHasNoEffect ==
  [][\A w \in Workers :
       /\ (FireStep(w) /\
             \/ clock = "late" /\ Get(load_state, "leg", 1) = 1
             \/ Get(load_state, "balance", 0) < MIN_STAKE
             \/ Get(load_state, "is_running_race", FALSE))
            => pc'[w] = "idle" /\ last'.w = w /\ last'.how \in SkipHows
       /\ (\/ FireStep(w) /\ pc'[w] = "idle"
           \/ pc[w] = "resolving" /\ pc'[w] = "idle" /\ up')
            => /\ last'.w = w /\ last'.how \in SkipHows
               /\ stake' = stake /\ stake'[w] = None
               /\ STATE_FILE' = STATE_FILE
               /\ audit' = audit]_vars

(* a job skipped on the flag while a wager of another job was outstanding *)
(* and an earlier job had left an audit row and a state file              *)
C28_Witness ==
  /\ last.how = "skip_flag" /\ audit > 0
  /\ \E w \in Workers : pc[w] = "placed" /\ stake[w] # None /\ last.w # w

(* C29: a job that fires after the cutoff with leg 1 ends at once without *)
(* a wager, skipped by the cutoff guard; one that fires after the cutoff  *)
(* with a leg above 1 is not skipped by the cutoff guard.                 *)
C29_CutoffStopsOnlyNewChase ==
  [][\A w \in Workers :
       (FireStep(w) /\ clock = "late") =>
          IF Get(load_state, "leg", 1) = 1
            THEN /\ pc'[w] = "idle" /\ last'.w = w /\ last'.how = "skip_cutoff"
                 /\ STATE_FILE' = STATE_FILE
            ELSE \/ pc'[w] = "resolving"
                 \/ pc'[w] = "idle" /\ last'.w = w
                      /\ last'.how \in {"skip_balance", "skip_flag"}]_vars

(* after the cutoff a job was skipped at leg 1 and a job of an open chase *)
(* is past the guards                                                     *)
C29_Witness ==
  /\ clock = "late" /\ last.how = "skip_cutoff" /\ last.leg = 1
  /\ \E w \in Workers : pc[w] = "resolving" /\ leg(w) > 1

(* C30: save_state is atomic with respect to crashes: a load_state after  *)
(* a save, completed or cut short by a crash, returns the complete        *)
(* previous snapshot or the complete new one.                             *)
C30_LoadReturnsOldOrNew ==
  (sv.pc # "unused" /\ sv.loaded.err # "none") =>
     /\ sv.loaded.err = ""
     /\ sv.loaded.value \in {sv.old, sv.new}

(* C31: no failure raised at a step of place_bet_job leaves the job body. *)
C31_NoFailureLeavesJob ==
  sd.pc # "unused" => sd.escaped = "none"

(* C32: when the daily reset finds the seed balance missing or without a  *)
(* balance, it writes no state file and the process is halted with no job *)
(* armed, so that no job places a wager afterwards.                       *)
C32_MissingSeedHalts ==
  [][/\ (sd.reset # "exit" /\ sd'.reset = "exit") =>
          sd'.statefile = sd.statefile
     /\ sd'.reset = "exit" => sd'.pc = "halted" /\ ~sd'.armed]_vars

(* C33: settlement order matches placement order: a wager is placed only  *)
(* when every wager placed before it has been settled.                    *)
C33_PlacedAfterEarlierSettled ==
  [][\A w \in Workers : PlaceStep(w) => Outstanding = {}]_vars

(* C34: the step that starts placing a wager persists the flag set; the   *)
(* step that settles it persists the outcome and the flag cleared in one  *)
(* save; and while a wager is outstanding, its outcome not yet applied,   *)
(* the persisted flag is set.                                             *)
C34_FlagBracketsWager ==
  [][\A w \in Workers :
       /\ PlaceStep(w) => IsRunning(STATE_FILE')
       /\ SettleStep(w) =>
            /\ ~IsRunning(STATE_FILE')
            /\ STATE_FILE'[1].leg = (IF last'.win THEN 1 ELSE leg(w) + 1)
            /\ STATE_FILE'[1].balance =
                 bal(w) + profit_of(last'.win, odds[w], stake[w])
       /\ pc'[w] = "placed" => IsRunning(STATE_FILE')]_vars

(* C35: no settled profit or loss is lost: once every fired job has ended *)
(* the persisted balance is the seed balance of the last reset plus the   *)
(* profits of the wagers settled since that reset.                        *)
C35_BalanceIsSeedPlusProfits ==
  (ledger.on /\ up /\ InFlight = {} /\ STATE_FILE # <<>>) =>
     STATE_FILE[1].balance = load_initial_balance + ledger.pnl

(* C36: a daily reset does not release the flag of an outstanding wager,  *)
(* and while nothing was written since the reset, a job that loaded its   *)
(* state before the reset neither settles over the reset state nor saves  *)
(* its flag over it with other values of balance, leg and losses.         *)
C36_ResetStateNotOverwritten ==
  [][/\ (ResetStep /\ Outstanding # {}) => IsRunning(STATE_FILE')
     /\ resetRun > 0 =>
          \A w \in Workers :
             /\ ~SettleStep(w)
             /\ PlaceStep(w) => IsResetState(STATE_FILE')]_vars

(* C37: in every persisted state leg = 1 iff accumulated_losses = 0 iff   *)
(* prev_stake is null, and when leg > 1 at least leg - 1 losses were      *)
(* settled since the last win or reset, accumulated_losses is the sum of  *)
(* the stakes of the last leg - 1 of them and prev_stake the stake of the *)
(* most recent one.                                                       *)
C37_LossesMatchLeg ==
  (ledger.on /\ STATE_FILE # <<>>) =>
     LET s == STATE_FILE[1]
         k == s.leg - 1
     IN /\ (s.leg = 1) <=> (s.accumulated_losses = 0)
        /\ (s.leg = 1) <=> (s.prev_stake = None)
        /\ s.leg > 1 =>
             /\ Len(ledger.streak) >= k
             /\ s.accumulated_losses = SumSeq(LastOf(ledger.streak, k))
             /\ s.prev_stake = ledger.streak[Len(ledger.streak)]

(* C38: the chase never goes past the final leg: every wager is placed at *)
(* a leg in 1..6, none at leg 7 or more after a loss at leg 6.            *)
C38_WagersWithinSixLegs ==
  (ch.pc = "on" /\ ch.wagerLeg # None) => ch.wagerLeg \in 1..6

(* C39: in every persisted state chase_active is true exactly when the    *)
(* leg is above 1.                                                        *)
C39_ChaseActiveIffOpenChase ==
  STATE_FILE # <<>> =>
     (Get(STATE_FILE[1], "chase_active", FALSE) <=> Get(STATE_FILE[1], "leg", 1) > 1)

=============================================================================
